---- MODULE Spec2Model ----
(***************************************************************************)
(* Nyaya-Setu: the link discoverer (url-extractor/main.py, WebCrawler) and *)
(* the document acquirer (research/PdfExtractor.py, PDFScraper).           *)
(*                                                                         *)
(* The two programs share nothing but a file, so each has its own          *)
(* specification over its own variables: SpecCrawl / FairSpecCrawl for the *)
(* crawler, SpecAcq for the acquirer.                                      *)
(***************************************************************************)
EXTENDS Integers, Sequences, FiniteSets, TLC

(***************************************************************************)
(* Bounds of the model.                                                    *)
(***************************************************************************)
MaxDepthArg == 3        \* max_depth is drawn from 0..MaxDepthArg
MaxPagesArg == 3        \* max_pages is drawn from 0..MaxPagesArg
MaxWorkers  == 2        \* size of the thread pool (10 in the source)
MaxLinks    == 3        \* at most this many distinct hrefs on one page
MaxFetches  == 2        \* the per-URL fetch counter saturates here
MaxRuns     == 2        \* acquisition runs over the same output directory
MaxPageList == 2        \* length of the page list of one acquisition run
MaxPdfLinks == 2        \* candidate links extracted from one page

(***************************************************************************)
(* The crawler's URL universe.  urlparse is a library: its result on each  *)
(* URL of the universe is tabulated.                                       *)
(***************************************************************************)
Base   == "http://site/"
PageA  == "http://site/a"
PageB  == "http://site/b"
OffUrl == "http://other/x"
PdfUrl == "http://site/d.pdf"
FtpUrl == "ftp://site/f"
OffPdf == "http://other/d.pdf"
BadHref == "http://[bad"      \* urljoin raises ValueError on this href

CrawlUrls == {Base, PageA, PageB, OffUrl, PdfUrl, FtpUrl, OffPdf}

\* the start URLs a crawler is constructed with (main.py line 104 takes any)
StartUrls == {Base, OffPdf}

\* what the output file holds from an earlier crawl
StaleFile == <<FtpUrl>>
Hrefs     == CrawlUrls \cup {BadHref}

Netloc(u) == CASE u \in {OffUrl, OffPdf} -> "other"
               [] OTHER                 -> "site"

Scheme(u) == CASE u = FtpUrl -> "ftp"
               [] OTHER      -> "http"

FilteredExt == {".pdf", ".jpg", ".png", ".gif", ".css", ".js"}

Suffix(u) == CASE u \in {PdfUrl, OffPdf} -> ".pdf"
               [] OTHER                 -> ""

\* position of each URL in the lexicographic order of Python strings
UrlRank(u) == CASE u = FtpUrl -> 1
                [] u = OffPdf -> 2
                [] u = OffUrl -> 3
                [] u = Base   -> 4
                [] u = PageA  -> 5
                [] u = PageB  -> 6
                [] u = PdfUrl -> 7

RECURSIVE Sorted(_)
Sorted(S) == IF S = {} THEN <<>>
             ELSE LET m == CHOOSE x \in S : \A y \in S : UrlRank(x) <= UrlRank(y)
                  IN  <<m>> \o Sorted(S \ {m})

Workers == 1..MaxWorkers

VARIABLES
  \* ---- WebCrawler ----
  base_url, domain, max_depth, max_pages,
  visited_urls, all_urls,
  current_urls, next_urls, depth,
  crawlPc,          \* "loop", "pool", "write", "done"
  queue,            \* tasks submitted to the executor and not yet started
  wpc,              \* per worker: "idle", "fetch", "extract", "add"
  wurl,             \* per worker: the url argument of extract_urls
  wlinks,           \* per worker: hrefs of the page still to be looked at
  wcur,             \* per worker: the link that passed the test of line 60
  wpage,            \* per worker: page_urls
  output_file,      \* the lines of the output file
  \* ---- observation of the crawler ----
  fetches,          \* per URL: number of requests issued (saturating)
  lenAtStart,       \* per worker: len(visited_urls) when its task started
  levels,           \* number of levels whose pool has been started
  baseLinks,        \* eligible links found on the start page, or "unfetched"
  sawIneligible,    \* a fetched page carried a link that is_valid_url refuses
  addedAt,          \* per URL: depth + 1 of the level that added it to all_urls, or -1
  \* ---- the output directory of PDFScraper (persists across runs) ----
  histFile,         \* the lines of download_history.txt
  dir,              \* artifact files: filename |-> content
  \* ---- PDFScraper ----
  downloaded_urls, downloaded_hashes,
  acqPc,            \* "none", "ready", "pages", "links", "finished"
  pagesLeft,        \* rest of the urls argument of scrape_multiple_pages
  pdf_links,        \* rest of the pdf_links of the page being scraped
  downloaded_count, total_downloaded,
  \* ---- the origin server ----
  pageResp,         \* what each page URL has answered so far
  docResp,          \* what each document URL has answered so far
  \* ---- observation of the acquirer ----
  runNo,            \* number of PDFScraper objects constructed so far
  pageList,         \* the urls argument of this run
  prevPageList,     \* the urls argument of the previous run
  histLenAtStart,   \* length of the history file when this run started
  dirAtStart,       \* the artifact files when this run started
  keeper,           \* digest |-> the URL and the file accepted with it in this run
  last,             \* the last download_pdf call: url, outcome, paths
  pageCounts,       \* what scrape_page has returned for each page of this run
  calls             \* the URLs scrape_page and download_pdf were called with

crawlVars == <<base_url, domain, max_depth, max_pages, visited_urls, all_urls,
               current_urls, next_urls, depth, crawlPc, queue, wpc, wurl,
               wlinks, wcur, wpage, output_file, fetches, lenAtStart, levels,
               baseLinks, sawIneligible, addedAt>>

acqVars == <<histFile, dir, downloaded_urls, downloaded_hashes, acqPc, pagesLeft,
             pdf_links, downloaded_count, total_downloaded, pageResp, docResp,
             runNo, pageList, prevPageList, histLenAtStart, dirAtStart, keeper,
             last, pageCounts, calls>>

vars == <<crawlVars, acqVars>>

(***************************************************************************)
(* WebCrawler.__init__                                                     *)
(***************************************************************************)
CrawlerCreated ==
  /\ base_url \in StartUrls
  /\ domain = Netloc(base_url)
  /\ max_depth \in 0..MaxDepthArg
  /\ max_pages \in 0..MaxPagesArg
  /\ visited_urls = {}
  /\ all_urls = {}
  /\ current_urls = {base_url}
  /\ next_urls = {}
  /\ depth = 0
  /\ crawlPc = "loop"
  /\ queue = {}
  /\ wpc = [w \in Workers |-> "idle"]
  /\ wurl = [w \in Workers |-> Base]
  /\ wlinks = [w \in Workers |-> {}]
  /\ wcur = [w \in Workers |-> Base]
  /\ wpage = [w \in Workers |-> {}]
  /\ output_file = StaleFile
  /\ fetches = [u \in CrawlUrls |-> 0]
  /\ lenAtStart = [w \in Workers |-> 0]
  /\ levels = 0
  /\ baseLinks = "unfetched"
  /\ sawIneligible = FALSE
  /\ addedAt = [u \in CrawlUrls |-> -1]

\* an is_valid_url that does not compare the host
is_valid_url_any_host(u) ==
  /\ Scheme(u) \in {"http", "https"}
  /\ Suffix(u) \notin FilteredExt

\* WebCrawler.is_valid_url
is_valid_url(u) ==
  /\ Netloc(u) = domain
  /\ Scheme(u) \in {"http", "https"}
  /\ Suffix(u) \notin FilteredExt

\* the early return without the page budget
SkipUrlNoBudget(u, d) ==
  \/ u \in visited_urls
  \/ d > max_depth

\* the early return without the look at visited_urls
SkipUrlNoVisited(u, d) ==
  \/ d > max_depth
  \/ Cardinality(visited_urls) >= max_pages

\* the early return of extract_urls (lines 42-45)
SkipUrl(u, d) ==
  \/ u \in visited_urls
  \/ d > max_depth
  \/ Cardinality(visited_urls) >= max_pages

\* the test of line 60
Eligible(u) == is_valid_url(u) /\ u \notin all_urls

\* what a successful fetch adds to the shared sets before extraction (line 52)
VisitedAfterFetch(u) == visited_urls \cup {u}

Bump(n) == IF n < MaxFetches THEN n + 1 ELSE n

\* the call of extract_urls ends: its locals are gone and the thread is free
Release(w) ==
  /\ wpc' = [wpc EXCEPT ![w] = "idle"]
  /\ wurl' = [wurl EXCEPT ![w] = Base]
  /\ wlinks' = [wlinks EXCEPT ![w] = {}]
  /\ wcur' = [wcur EXCEPT ![w] = Base]
  /\ wpage' = [wpage EXCEPT ![w] = {}]
  /\ lenAtStart' = [lenAtStart EXCEPT ![w] = 0]

(***************************************************************************)
(* crawl(): one iteration of `for depth in range(self.max_depth)` submits  *)
(* the whole frontier to a fresh executor.                                 *)
(***************************************************************************)
SubmitLevel ==
  /\ crawlPc = "loop"
  /\ depth < max_depth
  /\ next_urls' = {}
  /\ queue' = current_urls
  /\ crawlPc' = "pool"
  /\ levels' = levels + 1
  /\ UNCHANGED acqVars
  /\ UNCHANGED <<sawIneligible, addedAt>>
  /\ UNCHANGED <<base_url, domain, max_depth, max_pages, visited_urls, all_urls,
                 current_urls, depth, wpc, wurl, wlinks, wcur, wpage,
                 output_file, fetches, lenAtStart, baseLinks>>

\* range(max_depth) is exhausted
LoopExhausted ==
  /\ crawlPc = "loop"
  /\ depth >= max_depth
  /\ crawlPc' = "write"
  /\ UNCHANGED acqVars
  /\ UNCHANGED <<sawIneligible, addedAt>>
  /\ UNCHANGED <<base_url, domain, max_depth, max_pages, visited_urls, all_urls,
                 current_urls, next_urls, depth, queue, wpc, wurl, wlinks, wcur,
                 wpage, output_file, fetches, lenAtStart, levels, baseLinks>>

(***************************************************************************)
(* A pool thread takes a task and runs extract_urls up to its early        *)
(* return.  The three reads of the guard are one step: the task's own url  *)
(* is added to visited_urls by no other task of the level, and the last    *)
(* read is the one of len(visited_urls).                                   *)
(***************************************************************************)
WorkerStart(w) ==
  /\ crawlPc = "pool"
  /\ wpc[w] = "idle"
  /\ \A v \in Workers : v < w => wpc[v] # "idle"
  /\ \E u \in queue :
       /\ queue' = queue \ {u}
       /\ IF SkipUrl(u, depth)
          THEN UNCHANGED <<wpc, wurl, lenAtStart>>          \* return set()
          ELSE /\ wpc' = [wpc EXCEPT ![w] = "fetch"]
               /\ wurl' = [wurl EXCEPT ![w] = u]
               /\ lenAtStart' = [lenAtStart EXCEPT ![w] = Cardinality(visited_urls)]
  /\ UNCHANGED acqVars
  /\ UNCHANGED <<sawIneligible, addedAt>>
  /\ UNCHANGED <<base_url, domain, max_depth, max_pages, visited_urls, all_urls,
                 current_urls, next_urls, depth, crawlPc, wlinks, wcur, wpage,
                 output_file, fetches, levels, baseLinks>>

\* a failed request put back on the executor's queue
FetchFailRequeue(w) ==
  /\ wpc[w] = "fetch"
  /\ fetches' = [fetches EXCEPT ![wurl[w]] = Bump(@)]
  /\ queue' = queue \cup {wurl[w]}
  /\ Release(w)
  /\ UNCHANGED acqVars
  /\ UNCHANGED <<sawIneligible, addedAt>>
  /\ UNCHANGED <<base_url, domain, max_depth, max_pages, visited_urls, all_urls,
                 current_urls, next_urls, depth, crawlPc,
                 output_file, levels, baseLinks>>

\* a failed request whose URL is in visited_urls all the same
FetchFailVisits(w) ==
  /\ wpc[w] = "fetch"
  /\ fetches' = [fetches EXCEPT ![wurl[w]] = Bump(@)]
  /\ visited_urls' = visited_urls \cup {wurl[w]}
  /\ Release(w)
  /\ UNCHANGED acqVars
  /\ UNCHANGED <<sawIneligible, addedAt>>
  /\ UNCHANGED <<base_url, domain, max_depth, max_pages, all_urls,
                 current_urls, next_urls, depth, crawlPc, queue,
                 output_file, levels, baseLinks>>

\* requests.get / raise_for_status raise RequestException: return set()
FetchFail(w) ==
  /\ wpc[w] = "fetch"
  /\ fetches' = [fetches EXCEPT ![wurl[w]] = Bump(@)]
  /\ Release(w)
  /\ UNCHANGED acqVars
  /\ UNCHANGED <<sawIneligible, addedAt>>
  /\ UNCHANGED <<base_url, domain, max_depth, max_pages, visited_urls, all_urls,
                 current_urls, next_urls, depth, crawlPc, queue,
                 output_file, levels, baseLinks>>

\* The links of a page that extract_urls has to look at.  is_valid_url reads
\* nothing that changes during a crawl, so the links it rejects are dropped
\* here; the look at all_urls (line 60) stays a step of its own.
LinksToTest(links) == { h \in links : h = BadHref \/ is_valid_url(h) }

\* the page arrives: line 52, and the anchors of the page are parsed
FetchOk(w) ==
  /\ wpc[w] = "fetch"
  /\ fetches' = [fetches EXCEPT ![wurl[w]] = Bump(@)]
  /\ visited_urls' = VisitedAfterFetch(wurl[w])
  /\ \E links \in SUBSET Hrefs :
       /\ Cardinality(links) <= MaxLinks
       /\ wlinks' = [wlinks EXCEPT ![w] = LinksToTest(links)]
       /\ baseLinks' = IF wurl[w] = base_url /\ baseLinks = "unfetched"
                       THEN IF \E h \in links : h # BadHref /\ is_valid_url(h)
                            THEN "some" ELSE "none"
                       ELSE baseLinks
       /\ sawIneligible' = (sawIneligible \/
                              \E h \in links : h # BadHref /\ ~is_valid_url(h))
  /\ wpc' = [wpc EXCEPT ![w] = "extract"]
  /\ UNCHANGED acqVars
  /\ UNCHANGED <<addedAt>>
  /\ UNCHANGED <<base_url, domain, max_depth, max_pages, all_urls,
                 current_urls, next_urls, depth, crawlPc, queue, wurl,
                 wcur, wpage, output_file, lenAtStart, levels>>

\* line 58 raises on a malformed href: the exception leaves extract_urls and
\* future.result() re-raises it in crawl(), which logs it (lines 85-86)
LinkRaise(w) ==
  /\ wpc[w] = "extract"
  /\ BadHref \in wlinks[w]
  /\ Release(w)
  /\ UNCHANGED acqVars
  /\ UNCHANGED <<sawIneligible, addedAt>>
  /\ UNCHANGED <<base_url, domain, max_depth, max_pages, visited_urls, all_urls,
                 current_urls, next_urls, depth, crawlPc, queue,
                 output_file, fetches, levels, baseLinks>>

\* line 60: the test of one link; the two adds of lines 61-62 are a later step
LinkTest(w) ==
  /\ wpc[w] = "extract"
  /\ \E h \in wlinks[w] \ {BadHref} :
       IF Eligible(h)
       THEN /\ wcur' = [wcur EXCEPT ![w] = h]
            /\ wpc' = [wpc EXCEPT ![w] = "add"]
            /\ wlinks' = wlinks
       ELSE /\ wlinks' = [wlinks EXCEPT ![w] = @ \ {h}]
            /\ UNCHANGED <<wcur, wpc>>
  /\ UNCHANGED acqVars
  /\ UNCHANGED <<sawIneligible, addedAt>>
  /\ UNCHANGED <<base_url, domain, max_depth, max_pages, visited_urls, all_urls,
                 current_urls, next_urls, depth, crawlPc, queue, wurl,
                 wpage, output_file, fetches, lenAtStart, levels, baseLinks>>

\* lines 61-62
LinkAdd(w) ==
  /\ wpc[w] = "add"
  /\ wpage' = [wpage EXCEPT ![w] = @ \cup {wcur[w]}]
  /\ all_urls' = all_urls \cup {wcur[w]}
  /\ addedAt' = IF wcur[w] \in all_urls
                THEN addedAt
                ELSE [addedAt EXCEPT ![wcur[w]] = depth + 1]
  /\ wlinks' = [wlinks EXCEPT ![w] = @ \ {wcur[w]}]
  /\ wpc' = [wpc EXCEPT ![w] = "extract"]
  /\ UNCHANGED acqVars
  /\ UNCHANGED <<sawIneligible>>
  /\ UNCHANGED <<base_url, domain, max_depth, max_pages, visited_urls,
                 current_urls, next_urls, depth, crawlPc, queue, wurl,
                 wcur, output_file, fetches, lenAtStart, levels, baseLinks>>

\* line 64, and the main thread's next_urls.update(new_urls) for this future
\* (next_urls is private to the main thread and read only after the pool exits)
WorkerReturn(w) ==
  /\ wpc[w] = "extract"
  /\ wlinks[w] = {}
  /\ next_urls' = next_urls \cup wpage[w]
  /\ Release(w)
  /\ UNCHANGED acqVars
  /\ UNCHANGED <<sawIneligible, addedAt>>
  /\ UNCHANGED <<base_url, domain, max_depth, max_pages, visited_urls, all_urls,
                 current_urls, depth, crawlPc, queue,
                 output_file, fetches, levels, baseLinks>>

\* the executor's with-block exits once every future is done; lines 88-93
LevelEnd ==
  /\ crawlPc = "pool"
  /\ queue = {}
  /\ \A w \in Workers : wpc[w] = "idle"
  /\ current_urls' = next_urls
  /\ IF next_urls = {}
     THEN crawlPc' = "write" /\ depth' = depth
     ELSE crawlPc' = "loop" /\ depth' = depth + 1
  /\ UNCHANGED acqVars
  /\ UNCHANGED <<sawIneligible, addedAt>>
  /\ UNCHANGED <<base_url, domain, max_depth, max_pages, visited_urls, all_urls,
                 next_urls, queue, wpc, wurl, wlinks, wcur, wpage,
                 output_file, fetches, lenAtStart, levels, baseLinks>>

\* an output file opened for appending
WriteOutputAppend ==
  /\ crawlPc = "write"
  /\ output_file' = output_file \o Sorted(all_urls)
  /\ crawlPc' = "done"
  /\ UNCHANGED acqVars
  /\ UNCHANGED <<sawIneligible, addedAt>>
  /\ UNCHANGED <<base_url, domain, max_depth, max_pages, visited_urls, all_urls,
                 current_urls, next_urls, depth, queue, wpc, wurl, wlinks, wcur,
                 wpage, fetches, lenAtStart, levels, baseLinks>>

\* lines 96-101
WriteOutput ==
  /\ crawlPc = "write"
  /\ output_file' = Sorted(all_urls)
  /\ crawlPc' = "done"
  /\ UNCHANGED acqVars
  /\ UNCHANGED <<sawIneligible, addedAt>>
  /\ UNCHANGED <<base_url, domain, max_depth, max_pages, visited_urls, all_urls,
                 current_urls, next_urls, depth, queue, wpc, wurl, wlinks, wcur,
                 wpage, fetches, lenAtStart, levels, baseLinks>>

NextCrawl ==
  \/ SubmitLevel
  \/ LoopExhausted
  \/ \E w \in Workers : WorkerStart(w)
  \/ \E w \in Workers : FetchFail(w)
  \/ \E w \in Workers : FetchOk(w)
  \/ \E w \in Workers : LinkRaise(w)
  \/ \E w \in Workers : LinkTest(w)
  \/ \E w \in Workers : LinkAdd(w)
  \/ \E w \in Workers : WorkerReturn(w)
  \/ LevelEnd
  \/ WriteOutput

(***************************************************************************)
(* The acquirer's universe.  A filename is a sequence of pieces, so that   *)
(* "a_1.pdf" is the same name whether the server advertises it or the      *)
(* collision loop builds it from "a.pdf".                                  *)
(***************************************************************************)
Page1 == "http://site/p1"
Page2 == "http://site/p2"
PageUrls == {Page1, Page2}

Doc1  == "http://site/docs/a.pdf"
Doc1s == "http://site/docs/a.pdf "     \* href="a.pdf " : urljoin keeps the blank
DocUrls == {Doc1, Doc1s}

\* str.strip() on a line of the history file
Strip(u) == CASE u = Doc1s -> Doc1
              [] OTHER     -> u

\* os.path.basename(urlparse(url).path)
Basename(u) == CASE u = Doc1  -> <<"a", ".pdf">>
                 [] u = Doc1s -> <<"a", ".pdf", " ">>

\* hashlib.md5(url.encode()).hexdigest()
UrlDigest(u) == CASE u = Doc1  -> "3f1c"
                  [] u = Doc1s -> "c47a"

\* _calculate_file_hash: the digest of a file's bytes (no collisions modelled)
FileHash(bytes) == <<"md5", bytes>>

NoName == <<>>                                    \* no filename advertised
Partial == "%PDF-trunc"                           \* a body cut off by a stream error

\* 200 answers: a body, and the filename of the Content-Disposition header
OkResponses ==
  { [kind |-> "ok", body |-> "pdf-X", cd |-> NoName],
    [kind |-> "ok", body |-> "pdf-Y", cd |-> <<"a">>] }

DocResponses ==
  OkResponses \cup
  { [kind |-> "failed", body |-> "", cd |-> NoName],        \* status is not 200, or
                                                            \* requests.get raises
    [kind |-> "stream", body |-> Partial, cd |-> NoName] }  \* iter_content raises

LinkLists ==
  UNION { [1..n -> DocUrls] : n \in 0..MaxPdfLinks }

PageResponses ==
  { [kind |-> "ok", links |-> l] : l \in LinkLists } \cup
  { [kind |-> "non200", links |-> <<>>], [kind |-> "raise", links |-> <<>>] }

\* the urls argument: main reads it from the crawler's output file (lines
\* 196-202), which holds each URL on one line only
PageLists ==
  { l \in UNION { [1..n -> PageUrls] : n \in 0..MaxPageList } :
      \A i, j \in DOMAIN l : i # j => l[i] # l[j] }

Range(f) == { f[i] : i \in DOMAIN f }

\* the server is deterministic: a URL answers what it answered before
Answers(memo, u, all) == IF u \in DOMAIN memo THEN {memo[u]} ELSE all

\* filename.lower().endswith('.pdf')
EndsWithPdf(f) == Len(f) > 0 /\ f[Len(f)] \in {".pdf", ".PDF"}

\* lines 59-75
DeriveFilename(u, cd) ==
  LET named == IF cd # NoName
               THEN cd
               ELSE IF Basename(u) = <<>> \/ ~EndsWithPdf(Basename(u))
                    THEN <<UrlDigest(u), ".pdf">>
                    ELSE Basename(u)
  IN  IF ~EndsWithPdf(named) THEN Append(named, ".pdf") ELSE named

\* filename.replace('.pdf', '')
IsNotPdfPiece(t) == t # ".pdf"
StripPdf(f) == SelectSeq(f, IsNotPdfPiece)

\* the while loop of lines 82-85
RECURSIVE Probe(_, _, _)
Probe(original, counter, taken) ==
  LET candidate == original \o <<"_" \o ToString(counter), ".pdf">>
  IN  IF candidate \in taken THEN Probe(original, counter + 1, taken) ELSE candidate

\* the derived name used as it is
ResolvePathNoProbe(filename, taken) == filename

\* lines 77-85: the path the body is written to
ResolvePath(filename, taken) ==
  IF filename \in taken THEN Probe(StripPdf(filename), 1, taken) ELSE filename

\* open(filepath, 'wb') and the writes of the body
WriteFile(d, path, bytes) == (path :> bytes) @@ d

\* a removal that leaves the file behind
RemoveFileNoop(d, path) == d

\* os.remove(filepath)
RemoveFile(d, path) == [f \in DOMAIN d \ {path} |-> d[f]]

\* lines 31-33: the set the history file is loaded into
LoadHistory(lines) == { Strip(lines[i]) : i \in DOMAIN lines }

\* a save that writes nothing
SaveUrlToHistoryNoop(lines, u) == lines

\* save_url_to_history
SaveUrlToHistory(lines, u) == Append(lines, u)

\* lines 95-98: is the stored file a duplicate of one kept in this run
IsDuplicate(h) == h \in downloaded_hashes

\* a history test that never finds the URL
AlreadyDownloadedNever(u) == FALSE

\* the test of line 41
AlreadyDownloaded(u) == u \in downloaded_urls

\* the record of one download_pdf call; requested says whether line 49 ran
NoCall == [url |-> "", outcome |-> "none", derived |-> NoName, path |-> NoName,
           body |-> "", requested |-> FALSE]

(***************************************************************************)
(* PDFScraper.__init__ : a fresh object over the same output directory     *)
(***************************************************************************)
ScraperInit ==
  /\ acqPc \in {"none", "finished"}
  /\ runNo < MaxRuns
  /\ runNo' = runNo + 1
  /\ downloaded_urls' = LoadHistory(histFile)
  /\ downloaded_hashes' = {}
  /\ acqPc' = "ready"
  /\ prevPageList' = pageList
  /\ histLenAtStart' = Len(histFile)
  /\ dirAtStart' = dir
  /\ keeper' = <<>>
  /\ last' = NoCall
  /\ pageCounts' = <<>>
  /\ calls' = <<>>
  /\ total_downloaded' = 0
  /\ downloaded_count' = 0
  /\ UNCHANGED <<histFile, dir, pagesLeft, pdf_links, pageResp, docResp, pageList>>
  /\ UNCHANGED crawlVars

\* a scrape_multiple_pages that walks its list from the end
ScrapeMultipleStartReversed ==
  /\ acqPc = "ready"
  /\ \E urls \in PageLists :
       /\ pageList' = urls
       /\ pagesLeft' = [i \in 1..Len(urls) |-> urls[Len(urls) + 1 - i]]
  /\ total_downloaded' = 0
  /\ acqPc' = "pages"
  /\ UNCHANGED <<histFile, dir, downloaded_urls, downloaded_hashes, pdf_links,
                 downloaded_count, pageResp, docResp, runNo, prevPageList,
                 histLenAtStart, dirAtStart, keeper, last, pageCounts, calls>>
  /\ UNCHANGED crawlVars

\* scrape_multiple_pages(urls): lines 167-169
ScrapeMultipleStart ==
  /\ acqPc = "ready"
  /\ \E urls \in PageLists :
       /\ pageList' = urls
       /\ pagesLeft' = urls
  /\ total_downloaded' = 0
  /\ acqPc' = "pages"
  /\ UNCHANGED <<histFile, dir, downloaded_urls, downloaded_hashes, pdf_links,
                 downloaded_count, pageResp, docResp, runNo, prevPageList,
                 histLenAtStart, dirAtStart, keeper, last, pageCounts, calls>>
  /\ UNCHANGED crawlVars

\* a scrape_page whose failure leaves scrape_multiple_pages as an exception
ScrapePageAborting ==
  /\ acqPc = "pages"
  /\ pagesLeft # <<>>
  /\ \E r \in Answers(pageResp, Head(pagesLeft), PageResponses) :
       /\ pageResp' = (Head(pagesLeft) :> r) @@ pageResp
       /\ pdf_links' = r.links
       /\ acqPc' = IF r.kind = "ok" THEN "links" ELSE "finished"
  /\ downloaded_count' = 0
  /\ calls' = Append(calls, Head(pagesLeft))
  /\ UNCHANGED <<histFile, dir, downloaded_urls, downloaded_hashes, pagesLeft,
                 total_downloaded, docResp, runNo, pageList, prevPageList,
                 histLenAtStart, dirAtStart, keeper, last, pageCounts>>
  /\ UNCHANGED crawlVars

\* scrape_page up to the loop over pdf_links (lines 139-154); a page that
\* answers non-200 or raises yields 0 at once (lines 146-148, 163-165)
ScrapePage ==
  /\ acqPc = "pages"
  /\ pagesLeft # <<>>
  /\ \E r \in Answers(pageResp, Head(pagesLeft), PageResponses) :
       /\ pageResp' = (Head(pagesLeft) :> r) @@ pageResp
       /\ pdf_links' = r.links
  /\ downloaded_count' = 0
  /\ calls' = Append(calls, Head(pagesLeft))
  /\ acqPc' = "links"
  /\ UNCHANGED <<histFile, dir, downloaded_urls, downloaded_hashes, pagesLeft,
                 total_downloaded, docResp, runNo, pageList, prevPageList,
                 histLenAtStart, dirAtStart, keeper, last, pageCounts>>
  /\ UNCHANGED crawlVars

(***************************************************************************)
(* One iteration of the loop of lines 155-159: download_pdf(pdf_url) as a  *)
(* whole, and the count of line 157.                                       *)
(***************************************************************************)
DownloadPdf ==
  /\ acqPc = "links"
  /\ pdf_links # <<>>
  /\ pdf_links' = Tail(pdf_links)
  /\ calls' = Append(calls, Head(pdf_links))
  /\ LET url == Head(pdf_links) IN
     IF AlreadyDownloaded(url)
     THEN /\ last' = [NoCall EXCEPT !.url = url, !.outcome = "AlreadyDownloaded"]
          /\ UNCHANGED <<histFile, dir, downloaded_urls, downloaded_hashes,
                         downloaded_count, docResp, keeper>>
     ELSE \E r \in Answers(docResp, url, DocResponses) :
          /\ docResp' = (url :> r) @@ docResp
          /\ IF r.kind = "failed"                \* lines 51-53, 108-110
             THEN /\ last' = [NoCall EXCEPT !.url = url, !.outcome = "FetchFailed",
                                              !.requested = TRUE]
                  /\ UNCHANGED <<histFile, dir, downloaded_urls, downloaded_hashes,
                                 downloaded_count, keeper>>
             ELSE LET derived == DeriveFilename(url, r.cd)
                      path    == ResolvePath(derived, DOMAIN dir)
                      written == WriteFile(dir, path, r.body)
                      call    == [url |-> url, outcome |-> "FetchFailed",
                                  derived |-> derived, path |-> path,
                                  body |-> r.body, requested |-> TRUE]
                  IN
                  IF r.kind = "stream"
                  THEN /\ dir' = written                  \* the except of line 108
                       /\ last' = call
                       /\ UNCHANGED <<histFile, downloaded_urls, downloaded_hashes,
                                      downloaded_count, keeper>>
                  ELSE IF IsDuplicate(FileHash(written[path]))
                  THEN /\ dir' = RemoveFile(written, path)
                       /\ last' = [call EXCEPT !.outcome = "Duplicate"]
                       /\ UNCHANGED <<histFile, downloaded_urls, downloaded_hashes,
                                      downloaded_count, keeper>>
                  ELSE /\ dir' = written
                       /\ downloaded_hashes' = downloaded_hashes \cup {FileHash(written[path])}
                       /\ downloaded_urls' = downloaded_urls \cup {url}
                       /\ histFile' = SaveUrlToHistory(histFile, url)
                       /\ downloaded_count' = downloaded_count + 1
                       /\ keeper' = (FileHash(written[path]) :>
                                        [url |-> url, path |-> path]) @@ keeper
                       /\ last' = [call EXCEPT !.outcome = "Accepted"]
  /\ UNCHANGED <<acqPc, pagesLeft, total_downloaded, pageResp, runNo, pageList,
                 prevPageList, histLenAtStart, dirAtStart, pageCounts>>
  /\ UNCHANGED crawlVars

\* scrape_page returns downloaded_count; lines 171-175
PageReturn ==
  /\ acqPc = "links"
  /\ pdf_links = <<>>
  /\ total_downloaded' = total_downloaded + downloaded_count
  /\ pageCounts' = Append(pageCounts, downloaded_count)
  /\ downloaded_count' = 0
  /\ pagesLeft' = Tail(pagesLeft)
  /\ acqPc' = "pages"
  /\ UNCHANGED <<histFile, dir, downloaded_urls, downloaded_hashes, pdf_links,
                 pageResp, docResp, runNo, pageList, prevPageList,
                 histLenAtStart, dirAtStart, keeper, last, calls>>
  /\ UNCHANGED crawlVars

\* lines 177-178
ScrapeMultipleReturn ==
  /\ acqPc = "pages"
  /\ pagesLeft = <<>>
  /\ acqPc' = "finished"
  /\ UNCHANGED <<histFile, dir, downloaded_urls, downloaded_hashes, pagesLeft,
                 pdf_links, downloaded_count, total_downloaded, pageResp, docResp,
                 runNo, pageList, prevPageList, histLenAtStart, dirAtStart,
                 keeper, last, pageCounts, calls>>
  /\ UNCHANGED crawlVars

NextAcq ==
  \/ ScraperInit
  \/ ScrapeMultipleStart
  \/ ScrapePage
  \/ DownloadPdf
  \/ PageReturn
  \/ ScrapeMultipleReturn

\* an output directory that does not exist yet, and no scraper
NoScraper ==
  /\ histFile = <<>>
  /\ dir = <<>>
  /\ downloaded_urls = {}
  /\ downloaded_hashes = {}
  /\ acqPc = "none"
  /\ pagesLeft = <<>>
  /\ pdf_links = <<>>
  /\ downloaded_count = 0
  /\ total_downloaded = 0
  /\ pageResp = <<>>
  /\ docResp = <<>>
  /\ runNo = 0
  /\ pageList = <<>>
  /\ prevPageList = <<>>
  /\ histLenAtStart = 0
  /\ dirAtStart = <<>>
  /\ keeper = <<>>
  /\ last = NoCall
  /\ pageCounts = <<>>
  /\ calls = <<>>

InitCrawl == CrawlerCreated /\ NoScraper

InitAcq ==
  /\ NoScraper
  /\ CrawlerCreated
  /\ base_url = Base
  /\ max_depth = 0
  /\ max_pages = 0

SpecCrawl == InitCrawl /\ [][NextCrawl]_vars

FairSpecCrawl == SpecCrawl /\ WF_vars(NextCrawl)

SpecAcq == InitAcq /\ [][NextAcq]_vars

(***************************************************************************)
(* Properties of the crawler                                               *)
(***************************************************************************)

\* C1: every URL of visited_urls is in all_urls, in every state of a crawl
C1_VisitedInDiscovered == visited_urls \subseteq all_urls

\* C2: when the start page was fetched and had no eligible link, crawl()
\* returns and writes exactly {start URL} after a single level
C2_LonelyStartIsDiscovered ==
  (crawlPc = "done" /\ baseLinks = "none")
    => /\ all_urls = {base_url}
       /\ output_file = <<base_url>>
       /\ levels = 1

InFlight == { w \in Workers : wpc[w] = "fetch" }

\* C6: visited_urls never exceeds max_pages by more than the pool's in-flight
\* batch, and a task started with the budget used up issues no request
C6_SoftPageCap ==
  /\ Cardinality(visited_urls) + Cardinality(InFlight) <= max_pages + MaxWorkers
  /\ \A w \in InFlight : lenAtStart[w] < max_pages

\* the budget has been overshot by the batch that was in flight
C6_Overshoot ==
  /\ max_pages > 0
  /\ Cardinality(visited_urls) > max_pages

\* C7: no URL is requested, hence expanded, more than once in a crawl
C7_ExpandedAtMostOnce == \A u \in CrawlUrls : fetches[u] <= 1

\* a later level had the start URL in its frontier again (a page links back
\* to it) and its task has come and gone
C7_StartLinkedBack ==
  /\ crawlPc = "pool"
  /\ depth >= 1
  /\ base_url \in current_urls
  /\ base_url \notin queue
  /\ \A w \in Workers : wpc[w] = "idle"
  /\ fetches[base_url] = 1

\* C8: every crawl finishes its last level and writes the output file
C8_CrawlTerminates == <>(crawlPc = "done")

\* a crawl over a cyclic link graph has finished
C8_DoneOnCycle ==
  /\ crawlPc = "done"
  /\ base_url \in all_urls
  /\ Cardinality(visited_urls) >= 2

\* the request for u has failed
FetchFailed(u) ==
  /\ fetches[u] >= 1
  /\ u \notin visited_urls
  /\ \A w \in Workers : ~(wpc[w] = "fetch" /\ wurl[w] = u)

\* a step in which the request of worker w fails
FailedFetchStep(w) == wpc[w] = "fetch" /\ wpc'[w] = "idle"

\* such a step touches nothing but the worker that made the request
FailureTouchesNothing ==
  \A w \in Workers :
     FailedFetchStep(w)
       => /\ visited_urls' = visited_urls
          /\ wurl[w] \notin visited_urls'
          /\ all_urls' = all_urls
          /\ next_urls' = next_urls
          /\ queue' = queue
          /\ crawlPc' = crawlPc
          /\ \A v \in Workers \ {w} :
                wpc'[v] = wpc[v] /\ wurl'[v] = wurl[v] /\ wpage'[v] = wpage[v]

OnSiteDocument(u) ==
  /\ Netloc(u) = Netloc(base_url)
  /\ Scheme(u) \in {"http", "https"}
  /\ Suffix(u) \notin {".pdf", ".jpg", ".png", ".gif", ".css", ".js"}

\* every URL held for discovery or expansion is such a URL
HeldAreOnSite ==
  /\ \A u \in all_urls \cup next_urls : OnSiteDocument(u)
  /\ \A u \in current_urls \ {base_url} : OnSiteDocument(u)
  /\ \A w \in Workers : \A u \in wpage[w] : OnSiteDocument(u)

\* a link passes line 60 only if it is such a URL and not in all_urls, and
\* all_urls and page_urls grow by nothing but a link that passed
AddsOnlyNewOnSite ==
  /\ \A w \in Workers :
       (wpc[w] = "extract" /\ wpc'[w] = "add")
         => OnSiteDocument(wcur'[w]) /\ wcur'[w] \notin all_urls
  /\ \A w \in Workers :
       wpage'[w] \subseteq wpage[w] \cup {wcur[w]}
  /\ all_urls' # all_urls
       => \E w \in Workers : /\ wpc[w] = "add"
                              /\ all_urls' = all_urls \cup {wcur[w]}
  /\ next_urls' \subseteq next_urls \cup UNION { wpage[w] : w \in Workers }

\* C14: no URL off the domain, with another scheme or with a filtered
\* extension is ever requested, and a link enters all_urls and the next
\* frontier only if it is eligible and not yet in all_urls
C14_NeverRequestsIneligible ==
  /\ [](\A u \in CrawlUrls : fetches[u] >= 1 => OnSiteDocument(u))
  /\ []HeldAreOnSite
  /\ [][AddsOnlyNewOnSite]_vars

\* C14 as it holds: the same of every URL but the start URL, which is
\* requested whatever its extension
C14_NoIneligibleLinkRequested ==
  /\ [](\A u \in CrawlUrls \ {base_url} : fetches[u] >= 1 => OnSiteDocument(u))
  /\ []HeldAreOnSite
  /\ [][AddsOnlyNewOnSite]_vars

\* a crawl from a start URL with a filtered extension has expanded it, has met
\* links that is_valid_url refuses, and has discovered the other page of its host
C14_RefusedLinksMet ==
  /\ crawlPc = "done"
  /\ base_url = OffPdf
  /\ sawIneligible
  /\ all_urls = {OffUrl}
  /\ visited_urls = {OffPdf, OffUrl}

\* the depth a URL was first discovered at; the start URL is at depth 0
DepthOf(u) == IF u = base_url THEN 0 ELSE addedAt[u]

\* the page budget was not reached and no request failed
UnhinderedCrawl ==
  /\ Cardinality(visited_urls) < max_pages
  /\ \A u \in CrawlUrls : fetches[u] >= 1 => u \in visited_urls

\* C15: when crawl() returns from a crawl that met neither the page budget nor
\* a failed request, every URL discovered at a depth up to max_depth has been
\* expanded and no URL of a greater depth has
C15_ExpandedUpToMaxDepth ==
  (crawlPc = "done" /\ UnhinderedCrawl)
    => /\ \A u \in all_urls \cup {base_url} :
            DepthOf(u) <= max_depth => u \in visited_urls
       /\ \A u \in visited_urls : DepthOf(u) <= max_depth

\* C17: when crawl() has finished, the output file holds all_urls and nothing
\* else, one URL a line, no line twice, in ascending order, with nothing left
\* of what the file held before, whatever the schedule of the workers was
C17_FileIsSortedDiscovered ==
  crawlPc = "done"
    => /\ { output_file[i] : i \in DOMAIN output_file } = all_urls
       /\ Len(output_file) = Cardinality(all_urls)
       /\ \A i, j \in DOMAIN output_file :
            i < j => UrlRank(output_file[i]) < UrlRank(output_file[j])

\* a crawl that discovered two URLs has replaced the old file by them
C17_TwoLinesWritten ==
  /\ crawlPc = "done"
  /\ StaleFile # <<>>
  /\ output_file = <<Base, PageA>>

\* C19: every URL added to all_urls while a level is expanded is in the
\* frontier built for the next level, whatever the interleaving of the workers
\* and also when a task raises part-way through its links
C19_NoDiscoveredUrlLost ==
  [][ (crawlPc = "pool" /\ crawlPc' # "pool")
        => { u \in all_urls : addedAt[u] = depth + 1 } \subseteq current_urls'
    ]_vars

(***************************************************************************)
(* Properties of the acquirer                                              *)
(***************************************************************************)

\* a step that is one download_pdf call
IsDownloadStep == acqPc = "links" /\ acqPc' = "links"

\* the call wrote (or began to write) a file
Wrote(call) == call.path # NoName

\* the lines this run has appended to the history file
AppendedLines == { histFile[i] : i \in (histLenAtStart + 1)..Len(histFile) }

\* the artifact files this run has added
AddedFiles == DOMAIN dir \ DOMAIN dirAtStart

\* C3: a second run on the same page list over the same output directory
\* returns 0, appends nothing to the history file and adds no file
C3_SecondRunStoresNothing ==
  (runNo >= 2 /\ acqPc = "finished" /\ pageList = prevPageList)
    => /\ total_downloaded = 0
       /\ Len(histFile) = histLenAtStart
       /\ dir = dirAtStart

\* name is the derived name with a numeric suffix before its extension
IsSuffixedName(name, derived) ==
  \E c \in 1..(Cardinality(DOMAIN dir) + 1) :
     name = StripPdf(derived) \o <<"_" \o ToString(c), ".pdf">>

\* C4: download_pdf writes to a path that did not exist, leaves every
\* existing file as it was, and stores a document whose derived name is
\* taken under a different, numerically suffixed name
C4_NeverOverwrites ==
  [][ /\ \A f \in DOMAIN dir : f \in DOMAIN dir' /\ dir'[f] = dir[f]
      /\ (IsDownloadStep /\ Wrote(last'))
           => /\ last'.path \notin DOMAIN dir
              /\ last'.derived \in DOMAIN dir
                   => /\ last'.path # last'.derived
                      /\ IsSuffixedName(last'.path, last'.derived)
              /\ last'.derived \notin DOMAIN dir => last'.path = last'.derived
    ]_vars

\* a document was accepted under a suffixed name next to the file, of
\* different content, that holds its derived name
C4_StoredUnderSuffix ==
  /\ last.outcome = "Accepted"
  /\ last.path # last.derived
  /\ last.derived \in DOMAIN dir
  /\ dir[last.derived] # dir[last.path]

\* in this run each accepted content is held by exactly one added file, the one
\* written for the URL that was accepted with it, which is in both histories
OneCopyPerContent ==
  \A h \in DOMAIN keeper :
     /\ Cardinality({ f \in AddedFiles : FileHash(dir[f]) = h }) = 1
     /\ keeper[h].path \in AddedFiles
     /\ FileHash(dir[keeper[h].path]) = h
     /\ keeper[h].url \in downloaded_urls
     /\ keeper[h].url \in AppendedLines

\* the call found its content already kept: its file is gone again, nothing
\* is counted and its URL enters neither history
DuplicateDropped ==
  (IsDownloadStep /\ last'.outcome = "Duplicate")
    => /\ dir' = dir
       /\ downloaded_count' = downloaded_count
       /\ histFile' = histFile
       /\ downloaded_urls' = downloaded_urls
       /\ last'.url \notin downloaded_urls'
       /\ FileHash(last'.body) \in DOMAIN keeper
       /\ keeper[FileHash(last'.body)].url # last'.url

\* C5: of two URLs serving the same bytes within a run the first is kept and
\* recorded, the second is deleted, not counted and not recorded
C5_DuplicateContentStoredOnce == []OneCopyPerContent /\ [][DuplicateDropped]_vars

\* a second URL with the content of an accepted one has just been dropped
C5_SecondDropped ==
  /\ last.outcome = "Duplicate"
  /\ FileHash(last.body) \in DOMAIN keeper
  /\ keeper[FileHash(last.body)].url # last.url

\* C9: every URL is on at most one line of the history file
C9_HistoryHasNoDuplicateLine ==
  \A i, j \in DOMAIN histFile : i # j => histFile[i] # histFile[j]

Outcomes == {"AlreadyDownloaded", "FetchFailed", "Duplicate", "Accepted"}

\* what a download_pdf call may do to the two histories
HistoryStep ==
  /\ IsDownloadStep => last'.outcome \in Outcomes
  /\ (IsDownloadStep /\ last'.outcome = "Accepted")
       => /\ histFile' = Append(histFile, last'.url)
          /\ downloaded_urls' = downloaded_urls \cup {last'.url}
          /\ last'.url \notin downloaded_urls
  /\ (IsDownloadStep /\ last'.outcome # "Accepted")
       => /\ histFile' = histFile
          /\ downloaded_urls' = downloaded_urls
  /\ (IsDownloadStep /\ last'.outcome \in {"Duplicate", "Accepted"}) => Wrote(last')
  /\ (IsDownloadStep /\ last'.outcome = "AlreadyDownloaded") => ~Wrote(last')
  /\ ~IsDownloadStep => histFile' = histFile

\* C10: an attempt ends AlreadyDownloaded, FetchFailed, Duplicate or Accepted,
\* and only Accepted changes the history file and the in-memory history
C10_OnlyAcceptedMutatesHistory == [][HistoryStep]_vars

\* an accepted URL is the last line of the history file
C10_AcceptedRecorded ==
  /\ last.outcome = "Accepted"
  /\ Len(histFile) > histLenAtStart
  /\ histFile[Len(histFile)] = last.url
  /\ last.url \in downloaded_urls

\* C11: a download_pdf call on a URL of the in-memory history returns False
\* without a request and leaves the output directory, the history file, the
\* in-memory history and the hash set as they were
C11_KnownUrlIsSkipped ==
  [][ (IsDownloadStep /\ Head(pdf_links) \in downloaded_urls)
        => /\ last'.url = Head(pdf_links)
           /\ last'.outcome = "AlreadyDownloaded"
           /\ ~last'.requested
           /\ docResp' = docResp
           /\ downloaded_count' = downloaded_count
           /\ dir' = dir
           /\ histFile' = histFile
           /\ downloaded_urls' = downloaded_urls
           /\ downloaded_hashes' = downloaded_hashes
    ]_vars

\* a URL accepted earlier has been offered again, by a second page or a
\* second run, and was skipped
C11_SkippedKnown ==
  /\ last.outcome = "AlreadyDownloaded"
  /\ last.url \in downloaded_urls
  /\ last.url \in Range(histFile)
  /\ \E f \in DOMAIN dir : TRUE

\* the page answered non-200 or raised
PageFailed(p) == p \in DOMAIN pageResp /\ pageResp[p].kind # "ok"

\* C12: a page that answers non-200 or raises yields 0, no exception ends
\* scrape_multiple_pages, and every later page of the list is still scraped
C12_PageFailureIsIsolated ==
  /\ \A i \in DOMAIN pageCounts : PageFailed(pageList[i]) => pageCounts[i] = 0
  /\ (acqPc = "links" /\ PageFailed(Head(pagesLeft)))
       => pdf_links = <<>> /\ downloaded_count = 0
  /\ acqPc = "finished"
       => /\ pagesLeft = <<>>
          /\ Len(pageCounts) = Len(pageList)
          /\ Range(pageList) \subseteq Range(calls)

\* the first page of the list failed and the run went on to store a document
\* of the second
C12_LaterPageStored ==
  /\ acqPc = "finished"
  /\ Len(pageList) = 2
  /\ PageFailed(pageList[1])
  /\ pageCounts = <<0, 1>>
  /\ total_downloaded = 1

\* the calls made for a list of pages that have been scraped to the end: each
\* page, then its candidate links in the order they were extracted
RECURSIVE CallsFor(_)
CallsFor(pages) ==
  IF pages = <<>> THEN <<>>
  ELSE <<Head(pages)>> \o pageResp[Head(pages)].links \o CallsFor(Tail(pages))

\* the calls made so far for the page being scraped
CallsForCurrent ==
  IF acqPc = "links"
  THEN LET links == pageResp[Head(pagesLeft)].links
       IN  <<Head(pagesLeft)>> \o SubSeq(links, 1, Len(links) - Len(pdf_links))
  ELSE <<>>

\* the calls of the run are those of its list, walked in order
CallsInInputOrder ==
  acqPc \in {"pages", "links", "finished"}
    => /\ pagesLeft = SubSeq(pageList, Len(pageCounts) + 1, Len(pageList))
       /\ calls = CallsFor(SubSeq(pageList, 1, Len(pageCounts))) \o CallsForCurrent

\* a page is requested only when no candidate link of the page before is left
PageAfterLinks ==
  (acqPc = "pages" /\ acqPc' = "links") => pdf_links = <<>>

\* C16: pages are scraped in the order of the list and the candidate links of
\* a page in the order of extraction, each page only after the last link of
\* the page before it; the sequence of calls is a function of the list and of
\* the server's answers
C16_StrictInputOrder == []CallsInInputOrder /\ [][PageAfterLinks]_vars

\* a run over two different pages with a candidate link each has finished
C16_TwoPagesInOrder ==
  /\ acqPc = "finished"
  /\ Len(pageList) = 2
  /\ pageList[1] # pageList[2]
  /\ Len(calls) = 4
  /\ calls[1] = pageList[1]
  /\ calls[3] = pageList[2]

RECURSIVE SumOf(_)
SumOf(counts) == IF counts = <<>> THEN 0 ELSE Head(counts) + SumOf(Tail(counts))

\* C18: the count scrape_multiple_pages returns is the sum of the counts of
\* its pages, the number of lines the run appended to the history file and
\* the number of files the run added to the output directory
C18_CountIsLinesAndFiles ==
  acqPc = "finished"
    => /\ total_downloaded = SumOf(pageCounts)
       /\ total_downloaded = Len(histFile) - histLenAtStart
       /\ total_downloaded = Cardinality(AddedFiles)

\* C20: a download_pdf call that does not end Accepted leaves the artifact
\* files as they were, also when the body stream fails after the target file
\* was opened
C20_OnlyAcceptedLeavesFile ==
  [][ (IsDownloadStep /\ last'.outcome # "Accepted") => dir' = dir ]_vars

====
